---- MODULE Spec2Model ----
(***************************************************************************)
(* Model of visualize_ecosystem.py: load_data, print_statistics,           *)
(* plot_all_populations, plot_trophic_levels and main, together with the   *)
(* parts of their environment they act on: the working directory (input    *)
(* file, chart files), the wall clock, standard output and matplotlib's    *)
(* process-wide list of open figures.                                      *)
(***************************************************************************)
EXTENDS Integers, Sequences, FiniteSets, TLC

VARIABLES
    pc,         \* control location of the process
    input,      \* the working directory's ecosystem_data.csv: [exists, table]
    data,       \* the table bound to `data` (main's local / the call's argument)
    timestamp,  \* main's local `timestamp`
    now,        \* wall clock, in ticks of 1/TicksPerSecond second
    openFigs,   \* matplotlib's open figures, oldest first; the last is current
    files,      \* chart files of the working directory: name -> [image, writes]
    out,        \* lines printed on standard output by the current run / call
    trace,      \* the components that completed in the current run, in order
    exitCode,   \* exit status of the process (-1 while it has not exited)
    runs,       \* number of runs / calls started so far
    last        \* the last call: its name and argument, how it ended, the image it
                \* saved, the figures open when it began and when it began drawing

vars == <<pc, input, data, timestamp, now, openFigs, files, out, trace, exitCode, runs, last>>

----------------------------------------------------------------------------
(* Bounds of the model. *)

MaxCols == 3          \* a table has at most this many columns
MaxRows == 2          \* a table has at most this many data rows
MaxVal == 1           \* cell values of the statistics tables range over 0..MaxVal
MaxRuns == 2          \* at most this many runs of main / direct calls
MaxNow == 3           \* the clock is observed up to this tick
TicksPerSecond == 2   \* clock ticks per second (time.time() is sub-second)

ColNames == {"TimeStep", "Deer", "Wildflowers", "Fox", "UnknownCritter"}
StatNames == {"TimeStep", "Deer", "Fox"}
MainNames == {"TimeStep", "Deer", "UnknownCritter"}

----------------------------------------------------------------------------
(* Tables: a pandas DataFrame is an ordered list of column names and a     *)
(* list of rows, each row holding one integer per column.                  *)

Range(s) == {s[i] : i \in 1..Len(s)}

ColLists(names, n) ==
    {c \in UNION {[1..k -> names] : k \in 0..n} :
        \A i, j \in 1..Len(c) : i # j => c[i] # c[j]}

RowSeqs(width, maxRows, vals) ==
    IF width = 0 THEN {<<>>}
    ELSE UNION {[1..m -> [1..width -> vals]] : m \in 0..maxRows}

\* The input file is drawn: it exists or not as es allows, and holds a table
\* of at most MaxCols columns named in names and at most MaxRows rows of
\* cells in vals.
InputDrawn(names, vals, es) ==
    \E e \in es, c \in ColLists(names, MaxCols) :
        \E r \in RowSeqs(Len(c), MaxRows, vals) :
            input = [exists |-> e, table |-> [cols |-> c, rows |-> r]]

\* The table of the specification's worked example (two of its rows).
ExampleTable ==
    [cols |-> <<"TimeStep", "Deer", "Wildflowers", "Fox", "UnknownCritter">>,
     rows |-> << <<0, 20, 50, 3, 7>>, <<1, 22, 45, 4, 9>> >>]

SampleTables == {ExampleTable}

NoTable == [cols |-> <<>>, rows |-> <<>>]

\* len(data)
NRows(t) == Len(t.rows)

\* `name in data.columns`
HasCol(t, name) == name \in Range(t.cols)

ColIndex(t, name) == CHOOSE i \in 1..Len(t.cols) : t.cols[i] = name

\* data[name]: the column as a series of values
Col(t, name) == [r \in 1..NRows(t) |-> t.rows[r][ColIndex(t, name)]]

\* the columns other than TimeStep, in table order
SpeciesCols(t) == SelectSeq(t.cols, LAMBDA c : c # "TimeStep")

RECURSIVE SumSeq(_)
SumSeq(s) == IF s = <<>> THEN 0 ELSE s[1] + SumSeq(Tail(s))

RECURSIVE MaxSeq(_)
MaxSeq(s) ==
    IF Len(s) = 1 THEN s[1]
    ELSE LET m == MaxSeq(Tail(s)) IN IF s[1] >= m THEN s[1] ELSE m

RECURSIVE MinSeq(_)
MinSeq(s) ==
    IF Len(s) = 1 THEN s[1]
    ELSE LET m == MinSeq(Tail(s)) IN IF s[1] <= m THEN s[1] ELSE m

\* One printed line: its kind, its text argument and its numeric arguments.
Line(kind, text, nums) == [kind |-> kind, text |-> text, nums |-> nums]

----------------------------------------------------------------------------
(* load_data *)

InputName == "ecosystem_data.csv"
Paths == {InputName, "missing.csv"}

\* os.path.exists(filename), the working directory holding at most InputName
PathExists(filename, file) == filename = InputName /\ file.exists

\* What a call returns to the process: how it ended, what it printed, and
\* the state it leaves behind.
LoadDataUnchecked(filename, file) ==
    IF ~PathExists(filename, file)
    THEN [outcome |-> "FileNotFoundError", code |-> 1, data |-> NoTable, out |-> <<>>]
    ELSE [outcome |-> "ok", code |-> 0, data |-> file.table,
          out |-> <<Line("loaded", "", <<NRows(file.table), Len(file.table.cols) - 1>>)>>]
LoadData(filename, file) ==
    IF ~PathExists(filename, file)
    THEN [outcome |-> "SystemExit", code |-> 1, data |-> NoTable,
          out |-> <<Line("error_not_found", filename, <<>>)>>]
    ELSE IF file.table.cols = <<>>
    THEN \* pd.read_csv finds no columns to parse
         [outcome |-> "EmptyDataError", code |-> 1, data |-> NoTable, out |-> <<>>]
    ELSE [outcome |-> "ok", code |-> 0, data |-> file.table,
          out |-> <<Line("loaded", "", <<NRows(file.table), Len(file.table.cols) - 1>>)>>]

----------------------------------------------------------------------------
(* print_statistics *)

\* One line of the per-species table.  The mean is kept as the pair
\* (sum, count) it is computed from; max and min as values.
SpeciesLine(t, c) ==
    LET s == Col(t, c) IN
    Line("species", c, <<s[1], s[Len(s)], SumSeq(s), Len(s), MaxSeq(s), MinSeq(s)>>)

\* data.iloc[r].sum() - data['TimeStep'].iloc[r]
RowTotalWithTime(t, r) == SumSeq(t.rows[r])
RowTotal(t, r) == SumSeq(t.rows[r]) - Col(t, "TimeStep")[r]

StatsHeader == <<Line("stats_banner", "ECOSYSTEM STATISTICS SUMMARY", <<>>),
                 Line("stats_columns", "Species Initial Final Mean Max Min", <<>>)>>

PrintStatistics(t) ==
    LET sp == SpeciesCols(t)
        n == NRows(t)
        speciesLines == [i \in 1..Len(sp) |-> SpeciesLine(t, sp[i])]
        count == <<Line("total_timesteps", "", <<n>>)>>
    IN  IF n = 0 /\ sp # <<>>
        THEN \* data[column].iloc[0] on an empty column
             [outcome |-> "IndexError", out |-> StatsHeader]
        ELSE IF n = 0
        THEN \* data.iloc[0] on an empty table
             [outcome |-> "IndexError", out |-> StatsHeader \o count]
        ELSE IF ~HasCol(t, "TimeStep")
        THEN \* data['TimeStep']
             [outcome |-> "KeyError", out |-> StatsHeader \o speciesLines \o count]
        ELSE [outcome |-> "ok",
              out |-> StatsHeader \o speciesLines \o count \o
                      <<Line("initial_total", "", <<RowTotal(t, 1)>>),
                        Line("final_total", "", <<RowTotal(t, n)>>)>>]

----------------------------------------------------------------------------
(* matplotlib.pyplot: the process-wide list of open figures.  A figure is  *)
(* the list of its axes, an axes the list of the series drawn on it.       *)

Series(t, c) == [label |-> c, x |-> Col(t, "TimeStep"), y |-> Col(t, c)]

\* plt.close('all')
CloseAllKeeps(figs) == figs
CloseAll(figs) == <<>>

\* plt.figure() / plt.subplots(n, 1): a new figure, which becomes current
NewFigure(figs, nAxes) == Append(figs, [i \in 1..nAxes |-> <<>>])

\* plt.close(): closes the current figure
CloseCurrentKeeps(figs) == figs
CloseCurrent(figs) == IF figs = <<>> THEN <<>> ELSE SubSeq(figs, 1, Len(figs) - 1)

\* the current figure replaced by fig
SetCurrent(figs, fig) == [figs EXCEPT ![Len(figs)] = fig]

\* A chart file name: f'{stem}_{timestamp}.png', or '{stem}.png' when the
\* suffix is empty.
ChartName(stem, suffix) == [stem |-> stem, suffix |-> suffix]

NoImage == <<>>

\* plt.savefig(output): the current figure written to the working directory
SaveFig(fs, output, fig) ==
    LET before == IF output \in DOMAIN fs THEN fs[output].writes ELSE 0
    IN  [f \in DOMAIN fs \cup {output} |->
            IF f = output THEN [image |-> fig, writes |-> before + 1] ELSE fs[f]]

----------------------------------------------------------------------------
(* plot_all_populations *)

\* the columns the loop of lines 27-29 draws, in drawing order
PlottedColumnsAll(t) == t.cols
PlottedColumns(t) == SelectSeq(t.cols, LAMBDA c : c # "TimeStep")

\* writable: whether the working directory accepts the file savefig writes
PlotAllPopulations(t, output, figs, fs, writable) ==
    LET f0 == CloseAll(figs)
        f1 == NewFigure(f0, 0)
        cs == PlottedColumns(t)
        drawn == << [i \in 1..Len(cs) |-> Series(t, cs[i])] >>
        f2 == SetCurrent(f1, drawn)
    IN  IF cs # <<>> /\ ~HasCol(t, "TimeStep")
        THEN \* data['TimeStep'] raises before the first series is drawn
             [outcome |-> "KeyError", figs |-> f1, files |-> fs, out |-> <<>>,
              image |-> NoImage, preexisting |-> Len(f0)]
        ELSE IF ~writable
        THEN [outcome |-> "OSError", figs |-> f2, files |-> fs, out |-> <<>>,
              image |-> NoImage, preexisting |-> Len(f0)]
        ELSE [outcome |-> "ok", figs |-> CloseCurrent(f2),
              files |-> SaveFig(fs, output, drawn),
              out |-> <<Line("saved", output.stem, output.suffix)>>,
              image |-> drawn, preexisting |-> Len(f0)]

----------------------------------------------------------------------------
(* plot_trophic_levels *)

producers == <<"Wildflowers", "Berries", "Aspen", "Spruce">>
herbivores == <<"Deer", "Bunny", "FieldMouse", "GroundSquirrel", "Chipmunk">>
predators == <<"Fox", "Coyote", "BlackBear">>

\* the panels top to bottom: axes[0], axes[1], axes[2]
Groups == <<producers, herbivores, predators>>

\* the members of a group the loop draws: `if plant in data.columns`
PanelMembersAll(t, group) == SelectSeq(t.cols, LAMBDA c : c # "TimeStep")
PanelMembers(t, group) == SelectSeq(group, LAMBDA c : HasCol(t, c))

PlotTrophicLevels(t, output, figs, fs, writable) ==
    LET f0 == CloseAll(figs)
        f1 == NewFigure(f0, 3)
        ms == [p \in 1..3 |-> PanelMembers(t, Groups[p])]
        drawn == [p \in 1..3 |-> [i \in 1..Len(ms[p]) |-> Series(t, ms[p][i])]]
        f2 == SetCurrent(f1, drawn)
    IN  IF (\E p \in 1..3 : ms[p] # <<>>) /\ ~HasCol(t, "TimeStep")
        THEN \* data['TimeStep'] raises before the first series is drawn
             [outcome |-> "KeyError", figs |-> f1, files |-> fs, out |-> <<>>,
              image |-> NoImage, preexisting |-> Len(f0)]
        ELSE IF ~writable
        THEN [outcome |-> "OSError", figs |-> f2, files |-> fs, out |-> <<>>,
              image |-> NoImage, preexisting |-> Len(f0)]
        ELSE [outcome |-> "ok", figs |-> CloseCurrent(f2),
              files |-> SaveFig(fs, output, drawn),
              out |-> <<Line("saved", output.stem, output.suffix)>>,
              image |-> drawn, preexisting |-> Len(f0)]

----------------------------------------------------------------------------
(* The process.  A call is one step; an exception that nothing catches, or *)
(* sys.exit, terminates the process.                                       *)

Call(op, arg, r, openBefore) ==
    [op |-> op, arg |-> arg, outcome |-> r.outcome, image |-> r.image,
     openBefore |-> openBefore, preexisting |-> r.preexisting]

NoCall ==
    [op |-> "none", arg |-> "", outcome |-> "none", image |-> NoImage,
     openBefore |-> 0, preexisting |-> 0]

\* a call that touches no figure
Plain(r) == [outcome |-> r.outcome, image |-> NoImage, preexisting |-> 0]

InitProcess ==
    /\ pc = "idle"
    /\ data = NoTable
    /\ timestamp = -1
    /\ now = 0
    /\ openFigs = <<>>
    /\ files = <<>>
    /\ out = <<>>
    /\ trace = <<>>
    /\ exitCode = -1
    /\ runs = 0
    /\ last = NoCall

\* time.time() advances
Tick ==
    /\ now < MaxNow
    /\ now' = now + 1
    /\ UNCHANGED <<pc, input, data, timestamp, openFigs, files, out, trace, exitCode, runs, last>>

\* int(time.time())
UnixTime(t) == t \div TicksPerSecond

----------------------------------------------------------------------------
(* main, one step per component *)

\* the step main goes to when a step returns
MainNextSkipsStats(step) ==
    CASE step = "load" -> "plot_all"
      [] step = "stats" -> "plot_all"
      [] step = "plot_all" -> "plot_trophic"
      [] step = "plot_trophic" -> "done"
MainNextSwapsPlots(step) ==
    CASE step = "load" -> "stats"
      [] step = "stats" -> "plot_trophic"
      [] step = "plot_trophic" -> "plot_all"
      [] step = "plot_all" -> "done"
MainNext(step) ==
    CASE step = "load" -> "stats"
      [] step = "stats" -> "plot_all"
      [] step = "plot_all" -> "plot_trophic"
      [] step = "plot_trophic" -> "done"

\* main is entered: by the script's last line in a new process, or again
\* by the code that called it before.
StartMain ==
    /\ pc \in {"idle", "done"}
    /\ runs < MaxRuns
    /\ runs' = runs + 1
    /\ pc' = "load"
    /\ out' = <<Line("banner", "Ecosystem Data Visualization Tool", <<>>)>>
    /\ trace' = <<>>
    /\ exitCode' = -1
    /\ timestamp' = -1
    /\ data' = NoTable
    /\ last' = NoCall
    /\ UNCHANGED <<input, now, openFigs, files>>

\* a new process is started in the same working directory
Launch ==
    /\ pc \in {"terminated", "done"}
    /\ runs < MaxRuns
    /\ pc' = "idle"
    /\ openFigs' = <<>>
    /\ out' = <<>>
    /\ trace' = <<>>
    /\ exitCode' = -1
    /\ timestamp' = -1
    /\ data' = NoTable
    /\ last' = NoCall
    /\ UNCHANGED <<input, now, files, runs>>

\* how a step of main ends: it returns and main goes on, or the process ends
Proceed(step, component, r) ==
    IF r.outcome = "ok"
    THEN /\ pc' = MainNext(step)
         /\ trace' = Append(trace, component)
         /\ exitCode' = IF MainNext(step) = "done" THEN 0 ELSE -1
    ELSE /\ pc' = "terminated"
         /\ trace' = trace
         /\ exitCode' = 1

\* line 113
MainLoad ==
    /\ pc = "load"
    /\ LET r == LoadData(InputName, input) IN
        /\ data' = r.data
        /\ out' = out \o r.out
        /\ last' = Call("load_data", InputName, Plain(r), Len(openFigs))
        /\ Proceed("load", "Loader", r)
    /\ UNCHANGED <<input, timestamp, now, openFigs, files, runs>>

\* lines 116-121
MainStats ==
    /\ pc = "stats"
    /\ LET r == PrintStatistics(data) IN
        /\ out' = out \o r.out \o
                  (IF r.outcome = "ok" THEN <<Line("generating", "", <<>>)>> ELSE <<>>)
        /\ timestamp' = IF r.outcome = "ok" THEN UnixTime(now) ELSE timestamp
        /\ last' = Call("print_statistics", "", Plain(r), Len(openFigs))
        /\ Proceed("stats", "Reporter", r)
    /\ UNCHANGED <<input, data, now, openFigs, files, runs>>

\* line 122
MainPlotAll ==
    /\ pc = "plot_all"
    /\ \E writable \in BOOLEAN :
        LET r == PlotAllPopulations(data, ChartName("population_dynamics", <<timestamp>>),
                                    openFigs, files, writable) IN
        /\ openFigs' = r.figs
        /\ files' = r.files
        /\ out' = out \o r.out
        /\ last' = Call("plot_all_populations", "", r, Len(openFigs))
        /\ Proceed("plot_all", "PlotAll", r)
    /\ UNCHANGED <<input, data, timestamp, now, runs>>

\* lines 123-126
MainPlotTrophic ==
    /\ pc = "plot_trophic"
    /\ \E writable \in BOOLEAN :
        LET r == PlotTrophicLevels(data, ChartName("trophic_levels", <<timestamp>>),
                                   openFigs, files, writable) IN
        /\ openFigs' = r.figs
        /\ files' = r.files
        /\ out' = out \o r.out \o
                  (IF r.outcome = "ok" THEN <<Line("complete", "", <<>>)>> ELSE <<>>)
        /\ last' = Call("plot_trophic_levels", "", r, Len(openFigs))
        /\ Proceed("plot_trophic", "PlotTrophic", r)
    /\ UNCHANGED <<input, data, timestamp, now, runs>>

Init ==
    /\ InputDrawn(MainNames, {1}, BOOLEAN)
    /\ InitProcess

Next ==
    \/ Tick
    \/ StartMain
    \/ Launch
    \/ MainLoad
    \/ MainStats
    \/ MainPlotAll
    \/ MainPlotTrophic

Spec == Init /\ [][Next]_vars

----------------------------------------------------------------------------
(* load_data and print_statistics called on their own, over every table   *)
(* with columns named in StatNames and cells in 0..MaxVal.                 *)

CallLoadData ==
    /\ pc = "idle"
    /\ \E filename \in Paths :
        LET r == LoadData(filename, input) IN
        /\ data' = r.data
        /\ out' = r.out
        /\ last' = Call("load_data", filename, Plain(r), Len(openFigs))
        /\ pc' = IF r.outcome = "SystemExit" THEN "terminated" ELSE "idle"
        /\ exitCode' = IF r.outcome = "SystemExit" THEN r.code ELSE exitCode
    /\ UNCHANGED <<input, timestamp, now, openFigs, files, trace, runs>>

CallPrintStatistics ==
    /\ pc = "idle"
    /\ LET r == PrintStatistics(input.table) IN
        /\ data' = input.table
        /\ out' = r.out
        /\ last' = Call("print_statistics", "", Plain(r), Len(openFigs))
    /\ UNCHANGED <<pc, input, timestamp, now, openFigs, files, trace, exitCode, runs>>

InitStats ==
    /\ InputDrawn(StatNames, 0..MaxVal, {TRUE})
    /\ InitProcess

NextStats ==
    \/ CallLoadData
    \/ CallPrintStatistics

SpecStats == InitStats /\ [][NextStats]_vars

----------------------------------------------------------------------------
(* The two rendering operations called in any order within one process,    *)
(* the caller going on after a call that raised.                           *)

CallPlotAll ==
    /\ pc = "idle"
    /\ runs < MaxRuns
    /\ \E t \in {input.table} \cup SampleTables, writable \in BOOLEAN :
        LET r == PlotAllPopulations(t, ChartName("population_dynamics", <<>>),
                                    openFigs, files, writable) IN
        /\ data' = t
        /\ openFigs' = r.figs
        /\ files' = r.files
        /\ out' = r.out
        /\ last' = Call("plot_all_populations", "", r, Len(openFigs))
    /\ runs' = runs + 1
    /\ UNCHANGED <<pc, input, timestamp, now, trace, exitCode>>

CallPlotTrophic ==
    /\ pc = "idle"
    /\ runs < MaxRuns
    /\ \E t \in {input.table} \cup SampleTables, writable \in BOOLEAN :
        LET r == PlotTrophicLevels(t, ChartName("trophic_levels", <<>>),
                                   openFigs, files, writable) IN
        /\ data' = t
        /\ openFigs' = r.figs
        /\ files' = r.files
        /\ out' = r.out
        /\ last' = Call("plot_trophic_levels", "", r, Len(openFigs))
    /\ runs' = runs + 1
    /\ UNCHANGED <<pc, input, timestamp, now, trace, exitCode>>

InitPlot ==
    /\ InputDrawn(ColNames, {1}, {TRUE})
    /\ InitProcess

NextPlot ==
    \/ CallPlotAll
    \/ CallPlotTrophic

SpecPlot == InitPlot /\ [][NextPlot]_vars

----------------------------------------------------------------------------
(* Properties *)

PlotOps == {"plot_all_populations", "plot_trophic_levels"}

MainOrder == <<"Loader", "Reporter", "PlotAll", "PlotTrophic">>

IsPrefix(s, t) == Len(s) <= Len(t) /\ \A i \in 1..Len(s) : s[i] = t[i]

LinesOf(kind) == SelectSeq(out, LAMBDA l : l.kind = kind)

\* the chart files the current run reported as saved
Written == {ChartName(l.text, l.nums) : l \in Range(LinesOf("saved"))}

PopulationChart == ChartName("population_dynamics", <<timestamp>>)
TrophicChart == ChartName("trophic_levels", <<timestamp>>)

\* the sum of the species cells of row r, cell by cell
RECURSIVE SpeciesSumFrom(_, _, _)
SpeciesSumFrom(t, r, i) ==
    IF i > Len(t.cols) THEN 0
    ELSE (IF t.cols[i] = "TimeStep" THEN 0 ELSE t.rows[r][i]) + SpeciesSumFrom(t, r, i + 1)

\* the cell of row r under column c
Cell(t, r, c) == t.rows[r][CHOOSE i \in 1..Len(t.cols) : t.cols[i] = c]

\* the labels drawn on one axes, and every series of an image
LabelsOf(ax) == [i \in 1..Len(ax) |-> ax[i].label]
AllSeriesOf(img) == UNION {Range(img[p]) : p \in 1..Len(img)}
NumSeriesOf(img) == SumSeq([p \in 1..Len(img) |-> Len(img[p])])

\* the groups as the specification lists them
ClaimedGroups ==
    << {"Wildflowers", "Berries", "Aspen", "Spruce"},
       {"Deer", "Bunny", "FieldMouse", "GroundSquirrel", "Chipmunk"},
       {"Fox", "Coyote", "BlackBear"} >>

AllNames == ColNames \cup UNION Range(ClaimedGroups) \cup Range(data.cols)

\* C1: no chart file is written twice: the files a run of main writes were
\* not written by an earlier run.
C1_NoOverwrite == \A f \in DOMAIN files : files[f].writes <= 1

\* C2: when the input file does not exist, load_data prints a message naming
\* the path and the process terminates with exit code 1; the Reporter and the
\* Plotter never run and no chart file is produced.
C2_MissingInputExits ==
    ~input.exists =>
        /\ pc \in {"idle", "load", "terminated"}
        /\ DOMAIN files = {}
        /\ LinesOf("saved") = <<>>
        /\ last.op \in {"none", "load_data"}
        /\ last.op = "load_data" =>
            /\ pc = "terminated"
            /\ last.outcome = "SystemExit"
            /\ exitCode = 1
            /\ out[Len(out)] = Line("error_not_found", last.arg, <<>>)
            /\ last.arg = InputName
            /\ trace = <<>>

C2_Witness == ~input.exists /\ last.op = "load_data" /\ pc = "terminated"

\* C3 as stated: a run that ended wrote both charts and the full report, or
\* wrote no chart file at all.
C3_AllOrNothing ==
    pc \in {"done", "terminated"} =>
        \/ Written = {}
        \/ pc = "done" /\ Written = {PopulationChart, TrophicChart}

\* C3 amended: a run that ended wrote both charts and the full report (it
\* completed), or no chart file (it failed in the load, the statistics or
\* the first render), or the population_dynamics chart alone (it failed in
\* the second render); the trophic_levels chart is never the only one.
C3_PartialOnlyAfterFirstChart ==
    pc \in {"done", "terminated"} =>
        \/ /\ pc = "done"
           /\ trace = MainOrder
           /\ Written = {PopulationChart, TrophicChart}
           /\ Written \subseteq DOMAIN files
           /\ Len(LinesOf("final_total")) = 1
        \/ /\ pc = "terminated"
           /\ Written = {}
           /\ last.op \in {"load_data", "print_statistics", "plot_all_populations"}
        \/ /\ pc = "terminated"
           /\ Written = {PopulationChart}
           /\ PopulationChart \in DOMAIN files
           /\ last.op = "plot_trophic_levels"
           /\ trace = <<"Loader", "Reporter", "PlotAll">>

C3_Witness == pc = "terminated" /\ Written = {PopulationChart} /\ exitCode = 1

\* C10: within a run the components complete in the order Loader, Reporter,
\* all-populations chart, trophic-levels chart, each at most once; a step is
\* reached only when all the steps before it completed, and the exit status
\* is 0 only when all four completed.
C10_StrictOrder ==
    /\ IsPrefix(trace, MainOrder)
    /\ pc = "load" => trace = <<>>
    /\ pc = "stats" => trace = SubSeq(MainOrder, 1, 1)
    /\ pc = "plot_all" => trace = SubSeq(MainOrder, 1, 2)
    /\ pc = "plot_trophic" => trace = SubSeq(MainOrder, 1, 3)
    /\ pc = "done" => trace = MainOrder
    /\ exitCode = 0 => trace = MainOrder /\ pc = "done"

C10_Witness == exitCode = 0 /\ trace = MainOrder /\ runs = 2

\* C7: for a table with at least one row, the printed initial total is the
\* sum of the species cells of the first row and the printed final total the
\* sum of the species cells of the last row, the TimeStep cell excluded; a
\* table with a TimeStep column gets both figures printed.
C7_Totals ==
    (last.op = "print_statistics" /\ NRows(data) >= 1) =>
        /\ \A l \in Range(LinesOf("initial_total")) : l.nums = <<SpeciesSumFrom(data, 1, 1)>>
        /\ \A l \in Range(LinesOf("final_total")) : l.nums = <<SpeciesSumFrom(data, NRows(data), 1)>>
        /\ HasCol(data, "TimeStep") =>
            /\ Len(LinesOf("initial_total")) = 1
            /\ Len(LinesOf("final_total")) = 1

C7_Witness ==
    /\ last.op = "print_statistics"
    /\ last.outcome = "ok"
    /\ NRows(data) >= 2
    /\ Len(data.cols) >= 3
    /\ Cell(data, 1, "TimeStep") > 0
    /\ SpeciesSumFrom(data, 1, 1) # SpeciesSumFrom(data, NRows(data), 1)

\* C8: for a table of N rows with a time column and K species columns,
\* print_statistics prints K per-species lines, one per species column in
\* column order, showing the first-row and last-row values, and reports N
\* timesteps; load_data reports N timesteps and K species.
C8_ReportShape ==
    HasCol(data, "TimeStep") =>
        LET sp == LinesOf("species")
            cs == SelectSeq(data.cols, LAMBDA c : c # "TimeStep")
        IN  /\ last.op = "print_statistics" =>
                /\ Len(sp) = Len(data.cols) - 1
                /\ \A i \in 1..Len(sp) :
                    /\ sp[i].text = cs[i]
                    /\ sp[i].nums[1] = Cell(data, 1, cs[i])
                    /\ sp[i].nums[2] = Cell(data, NRows(data), cs[i])
                /\ LinesOf("total_timesteps") = <<Line("total_timesteps", "", <<NRows(data)>>)>>
            /\ (last.op = "load_data" /\ last.outcome = "ok") =>
                out = <<Line("loaded", "", <<NRows(data), Len(cs)>>)>>

\* C4: a rendering call starts drawing with no figure left open by an
\* earlier call, and the image it saves holds exactly the series of its own
\* table argument: one per drawn column, each with that table's TimeStep
\* column as x and the column's values as y, none twice.
C4_NoBleed ==
    last.op \in PlotOps =>
        /\ last.preexisting = 0
        /\ last.outcome = "ok" =>
            /\ \A s \in AllSeriesOf(last.image) :
                /\ HasCol(data, s.label)
                /\ s.x = [r \in 1..NRows(data) |-> Cell(data, r, "TimeStep")]
                /\ s.y = [r \in 1..NRows(data) |-> Cell(data, r, s.label)]
            /\ NumSeriesOf(last.image) = Cardinality({s.label : s \in AllSeriesOf(last.image)})
            /\ NumSeriesOf(last.image) =
                 IF last.op = "plot_all_populations"
                 THEN Cardinality(Range(data.cols) \ {"TimeStep"})
                 ELSE Cardinality(Range(data.cols) \cap UNION Range(ClaimedGroups))

C4_Witness ==
    /\ last.op \in PlotOps
    /\ last.outcome = "ok"
    /\ last.openBefore > 0
    /\ NumSeriesOf(last.image) >= 2

\* C5: in the image plot_trophic_levels saves for a table with a TimeStep
\* column, a name is drawn in a panel exactly when it is a column of the
\* table and a member of the panel's group; so no column is in two panels
\* and a column of no group is in none, and the call raises no error over it.
C5_PanelMembership ==
    (last.op = "plot_trophic_levels" /\ HasCol(data, "TimeStep")) =>
        /\ last.outcome \in {"ok", "OSError"}
        /\ last.outcome = "ok" =>
            /\ Len(last.image) = 3
            /\ \A p \in 1..3 :
                /\ \A c \in AllNames :
                    c \in Range(LabelsOf(last.image[p])) <=>
                        (c \in Range(data.cols) /\ c \in ClaimedGroups[p])
                /\ Len(last.image[p]) = Cardinality(Range(LabelsOf(last.image[p])))
            /\ \A c \in Range(data.cols) :
                Cardinality({p \in 1..3 : c \in Range(LabelsOf(last.image[p]))}) <= 1
            /\ files[ChartName("trophic_levels", <<>>)].image = last.image

C5_Witness ==
    /\ last.op = "plot_trophic_levels"
    /\ last.outcome = "ok"
    /\ data = ExampleTable
    /\ LabelsOf(last.image[1]) = <<"Wildflowers">>
    /\ LabelsOf(last.image[2]) = <<"Deer">>
    /\ LabelsOf(last.image[3]) = <<"Fox">>

\* C6: the image plot_all_populations saves has one axes whose series are
\* the table's columns other than TimeStep, once each and in the table's
\* column order, so a species of no group is among them.
C6_AllSeries ==
    (last.op = "plot_all_populations" /\ last.outcome = "ok") =>
        LET labels == LabelsOf(last.image[1]) IN
        /\ Len(last.image) = 1
        /\ Range(labels) = Range(data.cols) \ {"TimeStep"}
        /\ Len(labels) = Cardinality(Range(labels))
        /\ \A i, j \in 1..Len(labels) :
            i < j => \E a, b \in 1..Len(data.cols) :
                        a < b /\ data.cols[a] = labels[i] /\ data.cols[b] = labels[j]
        /\ files[ChartName("population_dynamics", <<>>)].image = last.image

C6_Witness ==
    /\ last.op = "plot_all_populations"
    /\ last.outcome = "ok"
    /\ data = ExampleTable
    /\ LabelsOf(last.image[1]) = <<"Deer", "Wildflowers", "Fox", "UnknownCritter">>

\* C9: when a rendering call returns, no figure is open, whatever the calls
\* before it left behind.
C9_NoOpenFigures ==
    (last.op \in PlotOps /\ last.outcome = "ok") => openFigs = <<>>

C9_Witness ==
    /\ last.op = "plot_trophic_levels"
    /\ last.outcome = "ok"
    /\ runs >= 2
    /\ last.openBefore > 0
    /\ openFigs = <<>>

====
